---- MODULE Spec2Model ----
(***************************************************************************)
(* Model of models/backbone.py (DePerceiver): the backbone variants, the   *)
(* construction entry point build_backbone, and the frozen normalisation   *)
(* layer's state restoration.  Tensors are modelled by their shape and     *)
(* dtype: every operation below computes the shape the corresponding       *)
(* tensor operation produces, or the exception it raises.                  *)
(***************************************************************************)
EXTENDS Integers, Sequences, FiniteSets, TLC

----------------------------------------------------------------------------
(* Bounds of the model *)

MaxSize == 3
BigSize == 40
MaxBatch == 2
MaxChannels == 3
MaxKernel == 3
MaxStride == 3
MaxDilation == 2
MaxValue == 2

(* Program constants *)

NoBackboneChannels == 3
PatchChannels == 3
ConvInChannels == 3

Sizes == (1..MaxSize) \cup {BigSize}
DTypes == {"float32", "float16"}

(* Python's None / an optional value: <<>> is None, <<v>> is the value v *)
None == <<>>
Some(v) == <<v>>
IsNone(o) == Len(o) = 0
Val(o) == o[1]

NoError == "none"

----------------------------------------------------------------------------
(* Python helpers *)

\* math.ceil(a / b) for positive b
Ceil(a, b) == (a + b - 1) \div b

\* `sub in name` on strings, strings being sequences of characters
Contains(name, sub) ==
    \E i \in 0..(Len(name) - Len(sub)) : SubSeq(name, i + 1, i + Len(sub)) = sub

\* the characters of the identifiers the program uses as stage names
Chars(id) ==
    CASE id = "layer1" -> <<"l","a","y","e","r","1">>
      [] id = "layer2" -> <<"l","a","y","e","r","2">>
      [] id = "layer3" -> <<"l","a","y","e","r","3">>
      [] id = "layer4" -> <<"l","a","y","e","r","4">>
      [] id = "layer5" -> <<"l","a","y","e","r","5">>
      [] id = "fc" -> <<"f","c">>

\* f'layer{i}'
LayerName(i) ==
    CASE i = 1 -> "layer1" [] i = 2 -> "layer2" [] i = 3 -> "layer3"
      [] i = 4 -> "layer4" [] i = 5 -> "layer5"

\* int(s) for the strings the model passes as args.interm_layer
IntOf(s) ==
    CASE s = "0" -> 0 [] s = "1" -> 1 [] s = "2" -> 2 [] s = "3" -> 3 [] s = "4" -> 4

----------------------------------------------------------------------------
(* Tensors and padded batches *)

Tensor(shape, dtype) == [shape |-> shape, dtype |-> dtype]

\* NestedTensor(tensors, mask): mask is None or the shape of a boolean tensor
NestedTensor(tensors, mask) == [tensors |-> tensors, mask |-> mask]

Inputs ==
    { NestedTensor(Tensor(<<b, c, h, w>>, d), m) :
        b \in 1..MaxBatch, c \in 1..MaxChannels, h \in Sizes, w \in Sizes,
        d \in DTypes, m \in {None} } \cup
    { NestedTensor(Tensor(<<b, c, h, w>>, d), Some(<<b, h, w>>)) :
        b \in 1..MaxBatch, c \in 1..MaxChannels, h \in Sizes, w \in Sizes,
        d \in DTypes }

\* the result of a call: a value, or the exception it raised
Ok(v) == [error |-> NoError, value |-> Some(v)]
Raise(e) == [error |-> e, value |-> None]

----------------------------------------------------------------------------
(* extract_image_patches *)

\* F.pad(x, (left, right, top, bottom)): the first pair pads the LAST
\* dimension, the second pair the one before it; negative padding crops
Pad(shape, left, right, top, bottom) ==
    LET hh == shape[3] + top + bottom
        ww == shape[4] + left + right
    IN  IF hh < 0 \/ ww < 0 THEN Raise("RuntimeError")
        ELSE Ok(<<shape[1], shape[2], hh, ww>>)

\* Tensor.unfold(dim, size, step): the number of windows along that dimension
UnfoldLen(n, size, step) == ((n - size) \div step) + 1

extract_image_patches(x, kernel, stride, dilation) ==
    LET b == x.shape[1]
        c == x.shape[2]
        h == x.shape[3]
        w == x.shape[4]
        h2 == Ceil(h, stride)
        w2 == Ceil(w, stride)
        pad_row == (h2 - 1) * stride + (kernel - 1) * dilation + 1 - h
        pad_col == (w2 - 1) * stride + (kernel - 1) * dilation + 1 - w
        padded == Pad(x.shape, pad_row \div 2, pad_row - (pad_row \div 2),
                      pad_col \div 2, pad_col - (pad_col \div 2))
    IN  IF padded.error # NoError THEN Raise(padded.error)
        ELSE LET ps == Val(padded.value)
             IN  IF ps[3] < kernel \/ ps[4] < kernel THEN Raise("RuntimeError")
                 ELSE LET ph == UnfoldLen(ps[3], kernel, stride)
                          pw == UnfoldLen(ps[4], kernel, stride)
                          \* permute(0, 4, 5, 1, 2, 3) of (b, c, ph, pw, k, k)
                          permuted == <<b, kernel, kernel, c, ph, pw>>
                          \* view(b, -1, ph, pw)
                          chans == permuted[2] * permuted[3] * permuted[4]
                      IN  Ok(Tensor(<<b, chans, ph, pw>>, x.dtype))

----------------------------------------------------------------------------
(* The torchvision model catalogue and IntermediateLayerGetter *)

\* ResNet stage widths: BasicBlock networks and Bottleneck networks
StageChannels(name) ==
    IF name \in {"resnet18", "resnet34"} THEN <<64, 128, 256, 512>>
    ELSE <<256, 512, 1024, 2048>>

\* a child module acting on the spatial size like a convolution with kernel
\* k, stride s, padding p and dilation d; ch = 0 keeps the channel count
Child(name, k, s, p, d, ch) == [name |-> name, k |-> k, s |-> s, p |-> p, d |-> d, ch |-> ch]

\* named_children() of torchvision's ResNet, in registration order;
\* replace_stride_with_dilation = [False, False, dilation]
ResNetChildren(name, dilation) ==
    LET ch == StageChannels(name)
    IN  << Child("conv1", 7, 2, 3, 1, 64),
           Child("bn1", 1, 1, 0, 1, 0),
           Child("relu", 1, 1, 0, 1, 0),
           Child("maxpool", 3, 2, 1, 1, 0),
           Child("layer1", 3, 1, 1, 1, ch[1]),
           Child("layer2", 3, 2, 1, 1, ch[2]),
           Child("layer3", 3, 2, 1, 1, ch[3]),
           IF dilation THEN Child("layer4", 3, 1, 2, 2, ch[4])
                       ELSE Child("layer4", 3, 2, 1, 1, ch[4]),
           Child("avgpool", 1, 1, 0, 1, 0),
           Child("fc", 1, 1, 0, 1, 0) >>

\* names of the trainable parameters of a ResNet built with FrozenBatchNorm2d
\* (whose statistics are buffers, not parameters): one per parameterised child
ParamName(prefix) == prefix \o <<".", "w", "e", "i", "g", "h", "t">>
ResNetParams ==
    { ParamName(<<"c","o","n","v","1">>),
      ParamName(Chars("layer1") \o <<".","0",".","c","o","n","v","1">>),
      ParamName(Chars("layer2") \o <<".","0",".","c","o","n","v","1">>),
      ParamName(Chars("layer3") \o <<".","0",".","c","o","n","v","1">>),
      ParamName(Chars("layer4") \o <<".","0",".","c","o","n","v","1">>),
      ParamName(Chars("fc")) }

\* getattr(torchvision.models, name)(replace_stride_with_dilation=...,
\* pretrained=..., norm_layer=FrozenBatchNorm2d): a fresh network, all of whose
\* parameters require gradients, or the exception the lookup or the call raises
TorchvisionModel(name, dilation) ==
    IF name \in {"resnet18", "resnet34"} /\ dilation THEN Raise("NotImplementedError")
    ELSE IF name \in {"resnet18", "resnet34", "resnet50", "resnet101"}
    THEN Ok([children |-> ResNetChildren(name, dilation),
             params |-> [p \in ResNetParams |-> TRUE]])
    ELSE IF name \in {"vgg16", "alexnet"} THEN Raise("TypeError")
    ELSE Raise("AttributeError")

ChildNames(children) == { children[i].name : i \in 1..Len(children) }

\* IntermediateLayerGetter.__init__: keep the children up to the last one that
\* return_layers names
IntermediateLayerGetter(children, return_layers) ==
    IF ~(DOMAIN return_layers \subseteq ChildNames(children)) THEN Raise("ValueError")
    ELSE LET last == CHOOSE n \in 1..Len(children) :
                        /\ children[n].name \in DOMAIN return_layers
                        /\ \A j \in (n + 1)..Len(children) :
                              children[j].name \notin DOMAIN return_layers
         IN  Ok([layers |-> SubSeq(children, 1, last), return_layers |-> return_layers])

\* one child module applied to a tensor
ApplyChild(m, x) ==
    Tensor(<< x.shape[1],
              IF m.ch = 0 THEN x.shape[2] ELSE m.ch,
              ((x.shape[3] + 2 * m.p - m.d * (m.k - 1) - 1) \div m.s) + 1,
              ((x.shape[4] + 2 * m.p - m.d * (m.k - 1) - 1) \div m.s) + 1 >>,
           x.dtype)

\* IntermediateLayerGetter.forward: the ordered mapping tag -> tensor, as the
\* sequence of its items in insertion order
RECURSIVE BodyItems(_, _, _)
BodyItems(layers, return_layers, x) ==
    IF Len(layers) = 0 THEN <<>>
    ELSE LET m == Head(layers)
             y == ApplyChild(m, x)
             rest == BodyItems(Tail(layers), return_layers, y)
         IN  IF m.name \in DOMAIN return_layers
             THEN <<[key |-> return_layers[m.name], value |-> y]>> \o rest
             ELSE rest

BodyForward(body, x) ==
    IF x.shape[2] # ConvInChannels THEN Raise("RuntimeError")
    ELSE Ok(BodyItems(body.layers, body.return_layers, x))

----------------------------------------------------------------------------
(* BackboneBase *)

DefaultLayersUsed == {"layer1", "layer2", "layer3", "layer4"}

\* FreezeParameters with `and` written for `or` in the freezing condition
FreezeParametersMut(params, train_backbone, layers_used) ==
    LET used == IF IsNone(layers_used) THEN DefaultLayersUsed ELSE Val(layers_used)
    IN  [ name \in DOMAIN params |->
            IF ~train_backbone /\ ~(\E layer \in used : Contains(name, Chars(layer)))
            THEN FALSE
            ELSE params[name] ]

\* the loop over backbone.named_parameters(): the requires_grad flags after it
FreezeParameters(params, train_backbone, layers_used) ==
    LET used == IF IsNone(layers_used) THEN DefaultLayersUsed ELSE Val(layers_used)
    IN  [ name \in DOMAIN params |->
            IF ~train_backbone \/ ~(\E layer \in used : Contains(name, Chars(layer)))
            THEN FALSE
            ELSE params[name] ]

\* ReturnLayers with the tags numbered from the deepest stage
ReturnLayersMut(return_interm_layers) ==
    IF return_interm_layers
    THEN ("layer1" :> "3") @@ ("layer2" :> "2") @@ ("layer3" :> "1") @@ ("layer4" :> "0")
    ELSE ("layer4" :> "0")

ReturnLayers(return_interm_layers) ==
    IF return_interm_layers
    THEN ("layer1" :> "0") @@ ("layer2" :> "1") @@ ("layer3" :> "2") @@ ("layer4" :> "3")
    ELSE ("layer4" :> "0")

\* BackboneBase.__init__: the new object and the backbone's requires_grad flags
BackboneBaseInit(backbone, train_backbone, num_channels, return_interm_layers, layers_used) ==
    LET body == IntermediateLayerGetter(backbone.children, ReturnLayers(return_interm_layers))
    IN  IF body.error # NoError THEN Raise(body.error)
        ELSE Ok([cls |-> "BackboneBase",
                 body |-> Val(body.value),
                 num_channels |-> num_channels,
                 params |-> FreezeParameters(backbone.params, train_backbone, layers_used)])

\* F.interpolate(input, size=size) of a 4-d input
Interpolate(shape, size) == <<shape[1], shape[2], size[1], size[2]>>

\* the mask BackboneBase.forward attaches to the feature map x:
\* F.interpolate(m[None].float(), size=x.shape[-2:]).to(torch.bool)[0]
ResizedMask(m, x) == Tail(Interpolate(<<1>> \o m, <<x.shape[3], x.shape[4]>>))

BackboneBaseForward(self, tensor_list) ==
    LET xs == BodyForward(self.body, tensor_list.tensors)
    IN  IF xs.error # NoError THEN Raise(xs.error)
        ELSE IF Len(Val(xs.value)) > 0 /\ IsNone(tensor_list.mask) THEN Raise("AssertionError")
        ELSE Ok([ i \in 1..Len(Val(xs.value)) |->
                    LET it == Val(xs.value)[i]
                    IN  [key |-> it.key,
                         value |-> NestedTensor(it.value,
                                     Some(ResizedMask(Val(tensor_list.mask), it.value)))] ])

\* Backbone.__init__
BackboneInit(name, train_backbone, return_interm_layers, dilation, layers_used) ==
    LET backbone == TorchvisionModel(name, dilation)
        num_channels == IF name \in {"resnet18", "resnet34"} THEN 512 ELSE 2048
    IN  IF backbone.error # NoError THEN Raise(backbone.error)
        ELSE BackboneBaseInit(Val(backbone.value), train_backbone, num_channels,
                              return_interm_layers, layers_used)

----------------------------------------------------------------------------
(* IntermediateLayerGetterBackbone, Joiner, NoBackbone, PatchBackbone *)

LayerChannels == <<256, 512, 1024, 2048>>

\* IntermediateLayerGetterBackboneInit that forgets the layer it was given
IntermediateLayerGetterBackboneInitMut(layer, backbone) ==
    IF ~IsNone(layer) /\ IntOf(Val(layer)) + 1 > Len(LayerChannels) THEN Raise("IndexError")
    ELSE Ok([cls |-> "IntermediateLayerGetterBackbone",
             layer |-> "0",
             num_channels |-> IF ~IsNone(layer) THEN LayerChannels[IntOf(Val(layer)) + 1]
                              ELSE backbone.num_channels,
             backbone |-> backbone])

\* IntermediateLayerGetterBackbone.__init__; layer is None or a string
IntermediateLayerGetterBackboneInit(layer, backbone) ==
    IF ~IsNone(layer) /\ IntOf(Val(layer)) + 1 > Len(LayerChannels) THEN Raise("IndexError")
    ELSE Ok([cls |-> "IntermediateLayerGetterBackbone",
             layer |-> IF ~IsNone(layer) THEN Val(layer) ELSE "0",
             num_channels |-> IF ~IsNone(layer) THEN LayerChannels[IntOf(Val(layer)) + 1]
                              ELSE backbone.num_channels,
             backbone |-> backbone])

\* xs[key] on the items of an ordered mapping
GetItem(xs, key) ==
    IF \E i \in 1..Len(xs) : xs[i].key = key
    THEN Ok(xs[CHOOSE i \in 1..Len(xs) : xs[i].key = key].value)
    ELSE Raise("KeyError")

IntermediateLayerGetterBackboneForward(self, tensor_list) ==
    LET xs == BackboneBaseForward(self.backbone, tensor_list)
    IN  IF xs.error # NoError THEN Raise(xs.error)
        ELSE GetItem(Val(xs.value), self.layer)

\* channel count of the positional encoding (the transformer's hidden size)
HiddenDim == 256

\* the positional encoding of one padded-batch feature map: one position
\* vector per mask position, in single precision
PositionEmbedding(x) ==
    LET m == Val(x.mask)
    IN  Tensor(<<m[1], HiddenDim, m[2], m[3]>>, "float32")

\* Tensor.to(dtype)
To(t, dtype) == Tensor(t.shape, dtype)

JoinerInit(backbone, position_embedding) ==
    [cls |-> "Joiner", backbone |-> backbone, position_embedding |-> position_embedding]

\* JoinerLoop with pos.insert(0, ...) for pos.append(...)
RECURSIVE JoinerLoopMut(_, _, _)
JoinerLoopMut(items, out, pos) ==
    IF Len(items) = 0 THEN [out |-> out, pos |-> pos]
    ELSE LET x == Head(items).value
         IN  JoinerLoopMut(Tail(items),
                           Append(out, x),
                           <<To(PositionEmbedding(x), x.tensors.dtype)>> \o pos)

\* Joiner.forward: the loop over xs.items(), appending to out and to pos
RECURSIVE JoinerLoop(_, _, _)
JoinerLoop(items, out, pos) ==
    IF Len(items) = 0 THEN [out |-> out, pos |-> pos]
    ELSE LET x == Head(items).value
         IN  JoinerLoop(Tail(items),
                        Append(out, x),
                        Append(pos, To(PositionEmbedding(x), x.tensors.dtype)))

JoinerForward(self, tensor_list) ==
    LET xs == BackboneBaseForward(self.backbone, tensor_list)
    IN  IF xs.error # NoError THEN Raise(xs.error)
        ELSE Ok(JoinerLoop(Val(xs.value), <<>>, <<>>))

NoBackboneInit == [cls |-> "NoBackbone", num_channels |-> NoBackboneChannels]

\* nn.Identity
NoBackboneForward(self, tensor_list) == Ok(tensor_list)

PatchBackboneInit(kernel, stride, dilation) ==
    [cls |-> "PatchBackbone",
     kernel |-> kernel,
     num_channels |-> (kernel * kernel) * PatchChannels,
     stride |-> stride,
     dilation |-> dilation]

PatchBackboneForward(self, tensor_list) ==
    LET x == extract_image_patches(tensor_list.tensors, self.kernel, self.stride, self.dilation)
    IN  IF x.error # NoError THEN Raise(x.error)
        ELSE Ok(NestedTensor(Val(x.value), tensor_list.mask))

----------------------------------------------------------------------------
(* build_backbone *)

NotImplemented == "NotImplementedError: Backbone not implemented"

\* LayersUpTo with range(1, int(args.interm_layer) + 1)
LayersUpToMut(interm_layer) == { LayerName(i) : i \in 1..IntOf(interm_layer) }

\* {f'layer{i}' for i in range(1, int(args.interm_layer) + 2)}
LayersUpTo(interm_layer) == { LayerName(i) : i \in 1..(IntOf(interm_layer) + 1) }

\* build_backbone whose last branch takes every remaining backbone name
build_backboneMut(args) ==
    IF args.model = "detr"
    THEN LET backbone == BackboneInit(args.backbone, args.lr_backbone > 0, args.masks,
                                      args.dilation, None)
         IN  IF backbone.error # NoError THEN Raise(backbone.error)
             ELSE Ok(JoinerInit(Val(backbone.value), "position_embedding")
                       @@ [num_channels |-> Val(backbone.value).num_channels])
    ELSE IF args.backbone = "n/a" THEN Ok(NoBackboneInit)
    ELSE IF args.backbone = "patch"
    THEN Ok(PatchBackboneInit(args.patch_kernel, args.patch_stride, args.patch_dilation))
    ELSE LET return_interm_layers == ~IsNone(args.interm_layer)
             layers_used == IF return_interm_layers
                            THEN Some(LayersUpTo(Val(args.interm_layer)))
                            ELSE None
             backbone == BackboneInit(args.backbone, args.lr_backbone > 0,
                                      return_interm_layers, args.dilation, layers_used)
         IN  IF backbone.error # NoError THEN Raise(backbone.error)
             ELSE IntermediateLayerGetterBackboneInit(args.interm_layer, Val(backbone.value))

build_backbone(args) ==
    IF args.model = "detr"
    THEN LET train_backbone == args.lr_backbone > 0
             return_interm_layers == args.masks
             backbone == BackboneInit(args.backbone, train_backbone, return_interm_layers,
                                      args.dilation, None)
         IN  IF backbone.error # NoError THEN Raise(backbone.error)
             ELSE Ok(JoinerInit(Val(backbone.value), "position_embedding")
                       @@ [num_channels |-> Val(backbone.value).num_channels])
    ELSE IF args.backbone = "n/a" THEN Ok(NoBackboneInit)
    ELSE IF args.backbone = "patch"
    THEN Ok(PatchBackboneInit(args.patch_kernel, args.patch_stride, args.patch_dilation))
    ELSE IF args.backbone = "resnet50"
    THEN LET train_backbone == args.lr_backbone > 0
             \* bool(args.interm_layer): None is false, a non-empty string true
             return_interm_layers == ~IsNone(args.interm_layer)
             layers_used == IF return_interm_layers
                            THEN Some(LayersUpTo(Val(args.interm_layer)))
                            ELSE None
             backbone == BackboneInit(args.backbone, train_backbone, return_interm_layers,
                                      args.dilation, layers_used)
         IN  IF backbone.error # NoError THEN Raise(backbone.error)
             ELSE IntermediateLayerGetterBackboneInit(args.interm_layer, Val(backbone.value))
    ELSE Raise(NotImplemented)

----------------------------------------------------------------------------
(* FrozenBatchNorm2d *)

NumFeatures == 2

BufferNames == <<"weight", "bias", "running_mean", "running_var">>

\* a one-dimensional tensor of n equal entries v
Vector(n, v) == [n |-> n, v |-> v]

\* FrozenBatchNorm2d.__init__: ones, zeros, zeros, ones
FrozenBatchNorm2dInit(n) ==
    [weight |-> Vector(n, 1), bias |-> Vector(n, 0),
     running_mean |-> Vector(n, 0), running_var |-> Vector(n, 1)]

\* a state-dict key is prefix + name
Key(prefix, name) == [prefix |-> prefix, name |-> name]

\* nn.Module._load_from_state_dict for a module whose local state is its four
\* persistent buffers and which has no submodules
RECURSIVE LoadBuffers(_, _, _, _, _)
LoadBuffers(names, st, state_dict, prefix, strict) ==
    IF Len(names) = 0 THEN st
    ELSE LET name == Head(names)
             key == Key(prefix, name)
             next ==
               IF key \in DOMAIN state_dict
               THEN IF state_dict[key].n # st.buffers[name].n
                    THEN [st EXCEPT !.error_msgs = Append(@, key)]
                    ELSE [st EXCEPT !.buffers[name] = state_dict[key]]
               ELSE IF strict THEN [st EXCEPT !.missing_keys = Append(@, key)]
               ELSE st
         IN  LoadBuffers(Tail(names), next, state_dict, prefix, strict)

ModuleLoadFromStateDict(buffers, state_dict, prefix, strict) ==
    LET st == LoadBuffers(BufferNames,
                          [buffers |-> buffers, missing_keys |-> <<>>, error_msgs |-> <<>>],
                          state_dict, prefix, strict)
        local == { BufferNames[i] : i \in 1..Len(BufferNames) }
    IN  [buffers |-> st.buffers,
         state_dict |-> state_dict,
         missing_keys |-> st.missing_keys,
         error_msgs |-> st.error_msgs,
         unexpected_keys |->
            IF strict
            THEN { key \in DOMAIN state_dict : key.prefix = prefix /\ key.name \notin local }
            ELSE {}]

\* del state_dict[key]
Del(state_dict, key) == [k \in DOMAIN state_dict \ {key} |-> state_dict[k]]

\* FrozenBatchNorm2dLoad without the deletion of the legacy counter
FrozenBatchNorm2dLoadMut(buffers, state_dict, prefix, strict) ==
    ModuleLoadFromStateDict(buffers, state_dict, prefix, strict)

\* FrozenBatchNorm2d._load_from_state_dict
FrozenBatchNorm2dLoad(buffers, state_dict, prefix, strict) ==
    LET num_batches_tracked_key == Key(prefix, "num_batches_tracked")
        cleaned == IF num_batches_tracked_key \in DOMAIN state_dict
                   THEN Del(state_dict, num_batches_tracked_key)
                   ELSE state_dict
    IN  ModuleLoadFromStateDict(buffers, cleaned, prefix, strict)

----------------------------------------------------------------------------
(* The state: the construction call made, the object it returned or the     *)
(* exception it raised, the last forward call's input and result; and a     *)
(* FrozenBatchNorm2d layer with the checkpoint it was restored from         *)

VARIABLES call, model, raised, input, output, bn, checkpoint, restored

vars == <<call, model, raised, input, output, bn, checkpoint, restored>>

NoCall == [op |-> "none"]
NoModel == [cls |-> "none"]

BackboneNames == {"resnet50", "resnet18", "vgg16", "n/a", "patch", "foo"}
IntermLayers == {None} \cup { Some(l) : l \in {"0", "1", "2", "3", "4"} }
LayerIds == {"layer1", "layer2", "layer3", "layer4", "fc"}

DefaultArgs ==
    [model |-> "perceiver", backbone |-> "n/a", lr_backbone |-> 0, masks |-> FALSE,
     dilation |-> FALSE, interm_layer |-> None,
     patch_kernel |-> 3, patch_stride |-> 1, patch_dilation |-> 1]

\* the configurations build_backbone is called with: the options a selection
\* does not read keep their defaults
Args ==
    { [DefaultArgs EXCEPT !.model = "detr", !.backbone = n, !.lr_backbone = lr,
                          !.masks = mk, !.dilation = dl] :
        n \in BackboneNames, lr \in {0, 1}, mk \in BOOLEAN, dl \in BOOLEAN } \cup
    { [DefaultArgs EXCEPT !.backbone = n] : n \in BackboneNames } \cup
    { [DefaultArgs EXCEPT !.backbone = "patch", !.patch_kernel = k, !.patch_stride = st,
                          !.patch_dilation = dl] :
        k \in 1..MaxKernel, st \in 1..MaxStride, dl \in 1..MaxDilation } \cup
    { [DefaultArgs EXCEPT !.backbone = "resnet50", !.lr_backbone = lr, !.dilation = dl,
                          !.interm_layer = il] :
        lr \in {0, 1}, dl \in BOOLEAN, il \in IntermLayers }

\* the prefix of the layer being restored, and of a neighbouring module
Prefix == "bn1."
OtherPrefix == "conv1."

\* what a checkpoint may hold for one buffer: nothing, a vector of the layer's
\* size, or a vector of another size
BufferEntries ==
    {None} \cup { Some(Vector(NumFeatures, v)) : v \in 0..MaxValue }
           \cup { Some(Vector(NumFeatures + 1, 0)) }

\* the checkpoint holding the given buffer entries, and, as the flags say, the
\* legacy counter, a stray entry of the layer and an entry of the neighbouring
\* module
Checkpoint(entries, legacy, stray, other) ==
    LET held == { i \in 1..Len(BufferNames) : ~IsNone(entries[i]) }
        keys == { Key(Prefix, BufferNames[i]) : i \in held }
                  \cup (IF legacy THEN {Key(Prefix, "num_batches_tracked")} ELSE {})
                  \cup (IF stray THEN {Key(Prefix, "stray")} ELSE {})
                  \cup (IF other THEN {Key(OtherPrefix, "weight")} ELSE {})
    IN  [ k \in keys |->
            IF k.prefix = Prefix /\ \E i \in held : BufferNames[i] = k.name
            THEN Val(entries[CHOOSE i \in held : BufferNames[i] = k.name])
            ELSE IF k.prefix = Prefix THEN Vector(1, 0)
            ELSE Vector(NumFeatures, 0) ]

NotRestored == [state_dict |-> <<>>, missing_keys |-> <<>>, error_msgs |-> <<>>,
                unexpected_keys |-> {}, strict |-> FALSE, done |-> FALSE]

Init ==
    /\ call = NoCall
    /\ model = NoModel
    /\ raised = NoError
    /\ input = None
    /\ output = None
    /\ bn = FrozenBatchNorm2dInit(NumFeatures)
    /\ checkpoint = <<>>
    /\ restored = NotRestored

\* model = build_backbone(args)
BuildBackbone ==
    /\ call = NoCall
    /\ \E args \in Args :
         LET r == build_backbone(args)
         IN  /\ call' = [op |-> "build_backbone", args |-> args]
             /\ model' = IF r.error = NoError THEN Val(r.value) ELSE NoModel
             /\ raised' = r.error
    /\ UNCHANGED <<input, output, bn, checkpoint, restored>>

\* model = BackboneBase(backbone, train_backbone, num_channels,
\* return_interm_layers, layers_used) on a ResNet-50, some of whose parameters
\* the caller may have frozen beforehand
ConstructBackboneBase ==
    /\ call = NoCall
    /\ \E train_backbone \in BOOLEAN, return_interm_layers \in BOOLEAN,
          layers_used \in {None} \cup { Some(S) : S \in SUBSET LayerIds },
          frozen \in { {}, {ParamName(Chars("layer1") \o <<".","0",".","c","o","n","v","1">>)} } :
         LET net == Val(TorchvisionModel("resnet50", FALSE).value)
             backbone == [net EXCEPT !.params = [p \in DOMAIN net.params |-> p \notin frozen]]
             r == BackboneBaseInit(backbone, train_backbone, 2048, return_interm_layers,
                                   layers_used)
         IN  /\ call' = [op |-> "BackboneBase", train_backbone |-> train_backbone,
                         return_interm_layers |-> return_interm_layers,
                         layers_used |-> layers_used, params |-> backbone.params]
             /\ model' = IF r.error = NoError THEN Val(r.value) ELSE NoModel
             /\ raised' = r.error
    /\ UNCHANGED <<input, output, bn, checkpoint, restored>>

\* model(tensor_list), for each class of model.  forward writes no attribute of
\* the model: a call is made on the model as constructed, and its result is
\* dropped (Discard) before the next call
CallBackboneBase ==
    /\ model.cls = "BackboneBase"
    /\ IsNone(output)
    /\ \E tensor_list \in Inputs :
         /\ input' = Some(tensor_list)
         /\ output' = Some(BackboneBaseForward(model, tensor_list))
    /\ UNCHANGED <<call, model, raised, bn, checkpoint, restored>>

CallIntermediateLayerGetterBackbone ==
    /\ model.cls = "IntermediateLayerGetterBackbone"
    /\ IsNone(output)
    /\ \E tensor_list \in Inputs :
         /\ input' = Some(tensor_list)
         /\ output' = Some(IntermediateLayerGetterBackboneForward(model, tensor_list))
    /\ UNCHANGED <<call, model, raised, bn, checkpoint, restored>>

CallJoiner ==
    /\ model.cls = "Joiner"
    /\ IsNone(output)
    /\ \E tensor_list \in Inputs :
         /\ input' = Some(tensor_list)
         /\ output' = Some(JoinerForward(model, tensor_list))
    /\ UNCHANGED <<call, model, raised, bn, checkpoint, restored>>

CallNoBackbone ==
    /\ model.cls = "NoBackbone"
    /\ IsNone(output)
    /\ \E tensor_list \in Inputs :
         /\ input' = Some(tensor_list)
         /\ output' = Some(NoBackboneForward(model, tensor_list))
    /\ UNCHANGED <<call, model, raised, bn, checkpoint, restored>>

CallPatchBackbone ==
    /\ model.cls = "PatchBackbone"
    /\ IsNone(output)
    /\ \E tensor_list \in Inputs :
         /\ input' = Some(tensor_list)
         /\ output' = Some(PatchBackboneForward(model, tensor_list))
    /\ UNCHANGED <<call, model, raised, bn, checkpoint, restored>>

\* the caller drops the result of the last call
Discard ==
    /\ ~IsNone(output)
    /\ input' = None
    /\ output' = None
    /\ UNCHANGED <<call, model, raised, bn, checkpoint, restored>>

Next ==
    \/ BuildBackbone
    \/ ConstructBackboneBase
    \/ CallBackboneBase
    \/ CallIntermediateLayerGetterBackbone
    \/ CallJoiner
    \/ CallNoBackbone
    \/ CallPatchBackbone
    \/ Discard

Spec == Init /\ [][Next]_vars

\* bn._load_from_state_dict(state_dict, prefix, ..., strict, missing_keys,
\* unexpected_keys, error_msgs) with empty lists, once, on the layer as
\* constructed (the pretrained weights are loaded when the network is built)
LoadFromStateDict ==
    /\ ~restored.done
    /\ \E entries \in [1..Len(BufferNames) -> BufferEntries],
          legacy \in BOOLEAN, stray \in BOOLEAN, other \in BOOLEAN, strict \in BOOLEAN :
         LET state_dict == Checkpoint(entries, legacy, stray, other)
             r == FrozenBatchNorm2dLoad(bn, state_dict, Prefix, strict)
         IN  /\ checkpoint' = state_dict
             /\ bn' = r.buffers
             /\ restored' = [state_dict |-> r.state_dict, missing_keys |-> r.missing_keys,
                             error_msgs |-> r.error_msgs,
                             unexpected_keys |-> r.unexpected_keys,
                             strict |-> strict, done |-> TRUE]
    /\ UNCHANGED <<call, model, raised, input, output>>

NextBN == LoadFromStateDict

SpecBN == Init /\ [][NextBN]_vars

----------------------------------------------------------------------------
(* Properties *)

\* the last forward call returned (did not raise); its result; its argument
Returned == ~IsNone(output) /\ Val(output).error = NoError
Result == Val(Val(output).value)
Given == Val(input)

\* the padded batch nt carries a mask whose height and width are those of its tensor
MaskFits(nt) ==
    /\ ~IsNone(nt.mask)
    /\ Len(Val(nt.mask)) = 3
    /\ Val(nt.mask)[2] = nt.tensors.shape[3]
    /\ Val(nt.mask)[3] = nt.tensors.shape[4]

\* q = ceil(n / d), stated without division
IsCeil(q, n, d) == q * d >= n /\ (q - 1) * d < n

\* the total stride of ResNet stage i (1..4) and the shape of its output
StageStride(i, dilation) ==
    CASE i = 1 -> 4 [] i = 2 -> 8 [] i = 3 -> 16
      [] i = 4 -> IF dilation THEN 16 ELSE 32

IsStageOutput(t, x, i, channels, dilation) ==
    /\ Len(t.shape) = 4
    /\ t.shape[1] = x.shape[1]
    /\ t.shape[2] = channels[i]
    /\ IsCeil(t.shape[3], x.shape[3], StageStride(i, dilation))
    /\ IsCeil(t.shape[4], x.shape[4], StageStride(i, dilation))

StageParam(i) == ParamName(Chars(LayerName(i)) \o <<".","0",".","c","o","n","v","1">>)

\* C1: every padded-batch feature map a backbone emits for an input with a mask
\* of the input's size -- each stage of BackboneBase.forward, the single stage
\* of PatchBackbone.forward -- carries a mask of that feature map's height and width
C1_MaskHasFeatureShape ==
    (Returned /\ ~IsNone(Given.mask)) =>
        /\ model.cls = "BackboneBase" =>
              \A i \in 1..Len(Result) : MaskFits(Result[i].value)
        /\ model.cls = "PatchBackbone" => MaskFits(Result)

\* C2: for every input height and width and every kernel, stride and dilation,
\* PatchBackbone.forward returns a feature map of height ceil(h / stride) and
\* width ceil(w / stride)
C2_PatchOutputSize ==
    (model.cls = "PatchBackbone" /\ ~IsNone(output)) =>
        /\ Returned
        /\ IsCeil(Result.tensors.shape[3], Given.tensors.shape[3], model.stride)
        /\ IsCeil(Result.tensors.shape[4], Given.tensors.shape[4], model.stride)

\* C3: after BackboneBase is constructed, with train_backbone false every
\* parameter is gradient-disabled; with train_backbone true a parameter is
\* gradient-enabled only if its name contains an identifier of layers_used
\* (default layer1..layer4)
C3_GradientGating ==
    (call.op = "BackboneBase" /\ model.cls = "BackboneBase") =>
        LET used == IF IsNone(call.layers_used)
                    THEN {"layer1", "layer2", "layer3", "layer4"}
                    ELSE Val(call.layers_used)
        IN  \A p \in DOMAIN model.params :
              /\ ~call.train_backbone => ~model.params[p]
              /\ (call.train_backbone /\ model.params[p]) =>
                    \E l \in used : Contains(p, Chars(l))

C3_Witness ==
    /\ call.op = "BackboneBase" /\ model.cls = "BackboneBase"
    /\ call.train_backbone
    /\ call.layers_used = Some({"layer2", "fc"})
    /\ model.params[StageParam(2)]
    /\ model.params[ParamName(Chars("fc"))]
    /\ ~model.params[StageParam(3)]
    /\ call.params[StageParam(3)]

\* the backbone names build_backbone accepts for a model kind
Recognized(kind, name) ==
    IF kind = "detr" THEN name \in {"resnet18", "resnet34", "resnet50", "resnet101"}
    ELSE name \in {"n/a", "patch", "resnet50"}

\* C4 as stated: for every model kind, build_backbone with an unrecognized
\* backbone name raises NotImplementedError 'Backbone ... not implemented' and
\* returns no model
C4_Original ==
    (call.op = "build_backbone" /\ ~Recognized(call.args.model, call.args.backbone)) =>
        raised = NotImplemented /\ model = NoModel

\* C4 as amended: build_backbone with an unrecognized backbone name raises and
\* returns no model; the exception is NotImplementedError 'Backbone ... not
\* implemented' for every model kind but 'detr', and for 'detr' the
\* AttributeError or TypeError of the torchvision lookup
C4_UnrecognizedRaises ==
    (call.op = "build_backbone" /\ ~Recognized(call.args.model, call.args.backbone)) =>
        /\ model = NoModel
        /\ raised # NoError
        /\ call.args.model # "detr" => raised = NotImplemented
        /\ call.args.model = "detr" => raised \in {"AttributeError", "TypeError"}

C4_Witness ==
    /\ call.op = "build_backbone"
    /\ call.args.model = "detr"
    /\ call.args.backbone = "foo"
    /\ raised = "AttributeError"
    /\ model = NoModel

\* C5: for every kernel k and every input with c channels, the feature map
\* PatchBackbone.forward returns has k*k*c channels, and num_channels equals
\* that value
C5_PatchChannels ==
    (model.cls = "PatchBackbone" /\ Returned) =>
        /\ Result.tensors.shape[2] = model.kernel * model.kernel * Given.tensors.shape[2]
        /\ model.num_channels = model.kernel * model.kernel * Given.tensors.shape[2]

\* C6: Joiner.forward returns feature maps and positional encodings of equal
\* length, one per stage the backbone produced, in the backbone's stage order,
\* the i-th encoding being the one of the i-th feature map
C6_JoinerParallel ==
    (model.cls = "Joiner" /\ Returned) =>
        LET xs == Val(BackboneBaseForward(model.backbone, Given).value)
        IN  /\ Len(Result.out) = Len(Result.pos)
            /\ Len(Result.out) = Len(xs)
            /\ Len(xs) = IF call.args.masks THEN 4 ELSE 1
            /\ \A i \in 1..Len(xs) :
                 /\ Result.out[i] = xs[i].value
                 /\ Result.pos[i].dtype = Result.out[i].tensors.dtype
                 /\ Result.pos[i].shape =
                       << Result.out[i].tensors.shape[1], HiddenDim,
                          Result.out[i].tensors.shape[3], Result.out[i].tensors.shape[4] >>

C6_Witness ==
    /\ model.cls = "Joiner" /\ Returned
    /\ call.args.masks
    /\ Given.tensors.dtype = "float16"
    /\ Given.tensors.shape[3] = BigSize /\ Given.tensors.shape[4] = 1
    /\ Len(Result.out) = 4 /\ Len(Result.pos) = 4
    /\ Result.pos[1].shape # Result.pos[4].shape

\* C7: with return_interm_layers true BackboneBase.forward yields exactly the
\* stages layer1..layer4 under the tags "0","1","2","3", in that order; with
\* return_interm_layers false only layer4, under the tag "0"
C7_StageOrder ==
    (call.op = "BackboneBase" /\ Returned) =>
        LET keys == [i \in 1..Len(Result) |-> Result[i].key]
            ch == <<256, 512, 1024, 2048>>
        IN  IF call.return_interm_layers
            THEN /\ keys = <<"0", "1", "2", "3">>
                 /\ \A i \in 1..4 :
                      IsStageOutput(Result[i].value.tensors, Given.tensors, i, ch, FALSE)
            ELSE /\ keys = <<"0">>
                 /\ IsStageOutput(Result[1].value.tensors, Given.tensors, 4, ch, FALSE)

C7_Witness ==
    /\ call.op = "BackboneBase" /\ Returned
    /\ call.return_interm_layers
    /\ Given.tensors.shape[3] = BigSize
    /\ Len(Result) = 4
    /\ Result[1].key = "0" /\ Result[4].key = "3"
    /\ Result[1].value.tensors.shape[3] > Result[4].value.tensors.shape[3]

\* C8: the model build_backbone returns for the 'resnet50' single-stage
\* selection with stage index i yields on forward the feature map of layer(i+1)
\* alone, and its num_channels is that map's channel count (256, 512, 1024,
\* 2048); without a stage index it yields layer4, with the backbone's count
C8_SingleStage ==
    (call.op = "build_backbone" /\ model.cls = "IntermediateLayerGetterBackbone" /\ Returned) =>
        LET il == call.args.interm_layer
            stage == IF IsNone(il) THEN 4 ELSE IntOf(Val(il)) + 1
            ch == <<256, 512, 1024, 2048>>
        IN  /\ DOMAIN Result = {"tensors", "mask"}
            /\ IsStageOutput(Result.tensors, Given.tensors, stage, ch, call.args.dilation)
            /\ model.num_channels = Result.tensors.shape[2]
            /\ IsNone(il) => model.num_channels = model.backbone.num_channels

C8_Witness ==
    /\ call.op = "build_backbone" /\ model.cls = "IntermediateLayerGetterBackbone"
    /\ Returned
    /\ call.args.interm_layer = Some("1")
    /\ Given.tensors.shape[3] = BigSize
    /\ Result.tensors.shape[2] = 512
    /\ model.num_channels = 512

\* C9: restoring a FrozenBatchNorm2d never fails because of num_batches_tracked:
\* present or absent in the checkpoint, it is reported neither missing nor
\* unexpected nor in error, and afterwards every buffer the checkpoint holds
\* (with the layer's size) equals the checkpoint's value
C9_LegacyCounterIgnored ==
    restored.done =>
        LET legacy == Key(Prefix, "num_batches_tracked")
            Elems(q) == { q[i] : i \in 1..Len(q) }
        IN  /\ legacy \notin restored.unexpected_keys
            /\ legacy \notin Elems(restored.missing_keys)
            /\ legacy \notin Elems(restored.error_msgs)
            /\ \A name \in {"weight", "bias", "running_mean", "running_var"} :
                 (/\ Key(Prefix, name) \in DOMAIN checkpoint
                  /\ checkpoint[Key(Prefix, name)].n = NumFeatures)
                 => bn[name] = checkpoint[Key(Prefix, name)]

C9_Witness ==
    /\ restored.done /\ restored.strict
    /\ Key(Prefix, "num_batches_tracked") \in DOMAIN checkpoint
    /\ \A name \in {"weight", "bias", "running_mean", "running_var"} :
         /\ Key(Prefix, name) \in DOMAIN checkpoint
         /\ checkpoint[Key(Prefix, name)] = Vector(NumFeatures, MaxValue)
         /\ bn[name] = Vector(NumFeatures, MaxValue)
    /\ restored.unexpected_keys = {}
    /\ restored.missing_keys = <<>>

\* C10: in the 'resnet50' single-stage selection with stage index i and
\* lr_backbone > 0, exactly the parameters of layer1..layer(i+1) stay
\* gradient-enabled: those of deeper stages and those outside the four stages
\* are gradient-disabled
C10_TrainableStages ==
    (/\ call.op = "build_backbone"
     /\ model.cls = "IntermediateLayerGetterBackbone"
     /\ ~IsNone(call.args.interm_layer)
     /\ call.args.lr_backbone > 0) =>
        LET i == IntOf(Val(call.args.interm_layer))
            params == model.backbone.params
        IN  /\ \A k \in 1..4 : params[StageParam(k)] = (k <= i + 1)
            /\ \A p \in DOMAIN params :
                 (\A k \in 1..4 : p # StageParam(k)) => ~params[p]

C10_Witness ==
    /\ call.op = "build_backbone"
    /\ model.cls = "IntermediateLayerGetterBackbone"
    /\ call.args.interm_layer = Some("1")
    /\ call.args.lr_backbone > 0
    /\ model.backbone.params[StageParam(2)]
    /\ ~model.backbone.params[StageParam(3)]
    /\ ~model.backbone.params[ParamName(Chars("fc"))]

====
